---------------------------- MODULE Spec2Model ----------------------------
(***************************************************************************)
(* ZeroTC45: driver of the SAMD21 timer/counters TC4 and TC5.              *)
(*                                                                         *)
(* The model holds the driver's own state (resolution, the two callback    *)
(* slots), the registers it programs (TC CTRLA/CTRLB/CC0/INTEN/INTFLAG/    *)
(* STATUS, the GCLK generator, the NVIC lines) and the position of each    *)
(* execution context: the normal program context ("thread"), the two       *)
(* interrupt handlers, and an API call made by user code from inside a     *)
(* callback ("isr").  Both interrupt lines have priority 0, so a handler   *)
(* preempts the thread and is never preempted itself.                      *)
(*                                                                         *)
(* A driver step is "busy-wait until SYNCBUSY is clear, then the next      *)
(* register write": the step is enabled only once the polled bit is clear. *)
(***************************************************************************)
EXTENDS Integers, FiniteSets

VARIABLES
    resolution,   \* ZeroTC45::resolution
    tcCallback,   \* tc4Callback / tc5Callback
    tc,           \* TC4 / TC5 register blocks
    nvic,         \* NVIC enable and pending bit of TC4_IRQn / TC5_IRQn
    gclk,         \* GCLK generator gclkId, its routing to GCM_TC4_TC5, XOSC32K, PM mask
    pc,           \* position of the API call each context is executing
    call,         \* arguments of that call
    isr,          \* position of TC4_Handler / TC5_Handler
    last,         \* history: the last start/stop call completed on each timer
    ninv,         \* history: callbacks invoked since the last start call halted the
                  \*          counter (line 169), when that start asked for one-shot
    reqPeriod,    \* history: period argument of the last start call (1 before any)
    calledFn,     \* history: function the running handler called through the slot
    runCalls,     \* history: calls made by the running handler
    lastSet,      \* history: argument of the last completed setTcXCallback
    prevSet,      \* history: slot content that call overwrote
    gap,          \* history: ticks since the last overflow under the configuration
                  \*          of the last start call (-1: no overflow under it yet)
    gclkDirty,    \* history: a GCLK register was written and no busy-wait passed since
    gclkUnsynced  \* history: a GCLK register was written while gclkDirty

vars == <<resolution, tcCallback, tc, nvic, gclk, pc, call, isr, last, ninv,
          reqPeriod, calledFn, runCalls, lastSet, prevSet, gap,
          gclkDirty,
          gclkUnsynced>>

Timers == {"TC4", "TC5"}
Resolutions == {"MILLISECONDS", "SECONDS"}
Contexts == {"thread", "isr"}
NULL == "NULL"

\* uint16_t
Uint16 == 65536

\* Callbacks user code registers, and the periods it starts timers with.
UserFns == {"A", "B"}
Fns == UserFns \cup {NULL}
Periods == {1}
EdgePeriods == {0, 1, 2, 3, 65535}

\* Saturation of the history counters.
MaxCount == 2

Sat(n) == IF n < MaxCount THEN n + 1 ELSE MaxCount

NoCall == [tc |-> "TC4", period |-> 1, oneShot |-> FALSE]

--------------------------------------------------------------------------
(* Hardware: TC register block (COUNT16 view)                             *)

TcReset == [enable |-> FALSE, prescaler |-> 1, oneshot |-> FALSE, stop |-> FALSE,
            cc0 |-> 0, count |-> 0, inten |-> FALSE, intflag |-> FALSE,
            syncbusy |-> FALSE]

\* The counter counts: enabled and not stopped (STATUS.STOP clear).
Running(r) == r.enable /\ ~r.stop

\* The TC's interrupt request to the NVIC: INTFLAG.OVF & INTENSET.OVF.
Line(r) == r.intflag /\ r.inten

\* CTRLA.reg &= ~TC_CTRLA_ENABLE : the counter halts, STATUS.STOP reads 1.
CtrlaDisable(r) == [r EXCEPT !.enable = FALSE, !.stop = TRUE, !.syncbusy = TRUE]

\* CTRLA.reg = MODE_COUNT16 | WAVEGEN(1) | RUNSTDBY [| PRESCALER_DIV1024]
CtrlaConfigure(r, res) ==
    [r EXCEPT !.enable = FALSE,
              !.prescaler = IF res = "SECONDS" THEN 1024 ELSE 1,
              !.syncbusy = TRUE]

\* CTRLBSET.bit.ONESHOT = 1
CtrlbSetOneShot(r) == [r EXCEPT !.oneshot = TRUE, !.syncbusy = TRUE]

\* Mutant: the period itself is written, not period - 1.
Cc0WritePeriod(r, p) == [r EXCEPT !.cc0 = p % Uint16, !.syncbusy = TRUE]

\* CC[0].reg = period - 1, a 16-bit register
Cc0Write(r, p) == [r EXCEPT !.cc0 = (p - 1) % Uint16, !.syncbusy = TRUE]

\* INTENSET.bit.OVF = 1
IntenSetOvf(r) == [r EXCEPT !.inten = TRUE]

\* CTRLA.reg |= TC_CTRLA_ENABLE : the counter starts, STATUS.STOP reads 0.
CtrlaEnable(r) == [r EXCEPT !.enable = TRUE, !.stop = FALSE, !.syncbusy = TRUE]

\* Mutant: the command toggles the counter between stopped and counting.
CmdStopToggles(r) ==
    [r EXCEPT !.stop = ~r.stop, !.count = 0, !.syncbusy = TRUE]

\* CTRLBSET.reg |= TC_CTRLBSET_CMD_STOP : the bits read back are set again
\* (no change), the command stops the counter and reloads it with ZERO.
CmdStop(r) == [r EXCEPT !.stop = TRUE, !.count = 0, !.syncbusy = TRUE]

\* INTENCLR.bit.OVF = 1
IntenClrOvf(r) == [r EXCEPT !.inten = FALSE]

\* INTFLAG.reg |= TC_INTFLAG_OVF : writing 1 clears the flag.
IntflagClear(r) == [r EXCEPT !.intflag = FALSE]

\* NVIC_ClearPendingIRQ; NVIC_EnableIRQ; NVIC_SetPriority(0).  The line is
\* level sensitive: a request still asserted pends again at once.
NvicClearEnable(n, line) == [enabled |-> TRUE, pending |-> line]

\* NVIC_ClearPendingIRQ; NVIC_DisableIRQ.
NvicClearDisable(n, line) == [enabled |-> FALSE, pending |-> line]

\* One count of the prescaled clock in match-frequency mode: TOP is CC0, the
\* count after TOP (or after 0xFFFF) is ZERO with OVF set; one-shot stops there.
TickTc(r) ==
    IF r.count = r.cc0 \/ r.count = Uint16 - 1
    THEN [r EXCEPT !.count = 0, !.intflag = TRUE,
                   !.stop = r.oneshot]
    ELSE [r EXCEPT !.count = r.count + 1]

Overflows(r) == r.count = r.cc0 \/ r.count = Uint16 - 1

--------------------------------------------------------------------------
(* Hardware: GCLK, SYSCTRL, PM                                            *)

GclkReset == [gendiv |-> 0, src |-> "NONE", divsel |-> FALSE, genen |-> FALSE,
              clken |-> FALSE, xosc32k |-> FALSE, apbc |-> {}, syncbusy |-> FALSE]

\* SYSCTRL->XOSC32K.reg = ... | ENABLE when counting seconds
Xosc32kEnable(g, res) ==
    [g EXCEPT !.xosc32k = g.xosc32k \/ res = "SECONDS"]

\* GCLK->GENDIV.reg = GCLK_GENDIV_ID(gclkId) | GCLK_GENDIV_DIV(4)
GendivWrite(g) == [g EXCEPT !.gendiv = 4, !.syncbusy = TRUE]

\* GCLK->GENCTRL.reg = GENEN | ID(gclkId) | DIVSEL | SRC_XOSC32K or SRC_OSCULP32K
GenctrlWrite(g, res) ==
    [g EXCEPT !.genen = TRUE, !.divsel = TRUE,
              !.src = IF res = "SECONDS" THEN "XOSC32K" ELSE "OSCULP32K",
              !.syncbusy = TRUE]

\* GCLK->CLKCTRL.reg = CLKEN | GEN(gclkId) | ID(GCM_TC4_TC5)
ClkctrlWrite(g) == [g EXCEPT !.clken = TRUE, !.syncbusy = TRUE]

\* PM->APBCMASK.reg |= PM_APBCMASK_TC4; PM->APBCMASK.reg |= PM_APBCMASK_TC5;
ApbcEnable(g) == [g EXCEPT !.apbc = Timers]

\* The generator's clock reaches both counters.
Clocked(t) == gclk.genen /\ gclk.clken /\ t \in gclk.apbc

--------------------------------------------------------------------------
(* Scheduling on the one core                                             *)

HandlerActive == \E t \in Timers : isr[t] # "idle"

IrqReady(t) == nvic[t].enabled /\ nvic[t].pending

\* The thread executes only while no handler runs and no enabled line pends.
\* Code called from a callback executes while that callback runs.
CanRun(ctx) ==
    IF ctx = "thread"
    THEN ~HandlerActive /\ \A t \in Timers : ~IrqReady(t)
    ELSE \E t \in Timers : isr[t] = "cb"

\* Positions inside configureTC and stopTC, named by the line of the busy-wait
\* the context is at; positions inside configureGclk, named by the line.
CfgLabels == {"cfg168", "cfg170", "cfg181", "cfg186", "cfg192", "cfg196", "cfg200"}
StopLabels == {"stop140", "stop142", "stop146"}
GclkWaitLabels == {"gclk250", "gclk261", "gclk267"}

\* A start or stop call on timer t is in progress.
InCall(t) ==
    \E ctx \in Contexts : pc[ctx] \in CfgLabels \cup StopLabels /\ call[ctx].tc = t

\* The start call in progress on t, or else the last one completed (with no
\* stop since), asked for one-shot.
OneShotAsked(t) ==
    \/ \E ctx \in Contexts :
           pc[ctx] \in CfgLabels \ {"cfg168"} /\ call[ctx].tc = t /\ call[ctx].oneShot
    \/ ~InCall(t) /\ last[t] = "oneshot"

\* begin has returned at least once (the header: "This must be called before
\* any other methods").
Begun == gclk.apbc = Timers

--------------------------------------------------------------------------
Init ==
    /\ resolution \in Resolutions       \* not initialised by ZeroTC45() {}
    /\ tcCallback = [t \in Timers |-> NULL]
    /\ tc = [t \in Timers |-> TcReset]
    /\ nvic = [t \in Timers |-> [enabled |-> FALSE, pending |-> FALSE]]
    /\ gclk = GclkReset
    /\ pc = [c \in Contexts |-> "idle"]
    /\ call = [c \in Contexts |-> NoCall]
    /\ isr = [t \in Timers |-> "idle"]
    /\ last = [t \in Timers |-> "none"]
    /\ ninv = [t \in Timers |-> 0]
    /\ calledFn = [t \in Timers |-> NULL]
    /\ runCalls = [t \in Timers |-> 0]
    /\ lastSet = [t \in Timers |-> NULL]
    /\ prevSet = [t \in Timers |-> NULL]
    /\ gap = [t \in Timers |-> -1]
    /\ reqPeriod = [t \in Timers |-> 1]
    /\ gclkDirty = FALSE
    /\ gclkUnsynced = FALSE

cbHist == <<calledFn, runCalls, lastSet, prevSet>>
tickHist == <<gap, reqPeriod>>
gclkHist == <<gclkDirty, gclkUnsynced>>

--------------------------------------------------------------------------
(* Hardware steps                                                         *)

\* The write synchronisation of a TC finishes: STATUS.SYNCBUSY clears.
TcSyncDone(t) ==
    /\ tc[t].syncbusy
    /\ tc' = [tc EXCEPT ![t].syncbusy = FALSE]
    /\ UNCHANGED <<resolution, tcCallback, nvic, gclk, pc, call, isr, last, ninv>>
    /\ UNCHANGED <<cbHist, tickHist, gclkHist>>

\* The write synchronisation of the GCLK finishes: GCLK->STATUS.SYNCBUSY clears.
GclkSyncDone ==
    /\ gclk.syncbusy
    /\ gclk' = [gclk EXCEPT !.syncbusy = FALSE]
    /\ UNCHANGED <<resolution, tcCallback, tc, nvic, pc, call, isr, last, ninv>>
    /\ UNCHANGED <<cbHist, tickHist, gclkHist>>

\* One count of a running counter.  An overflow with the overflow interrupt
\* enabled raises the request; the NVIC latches it unless the line's handler
\* is active (the request is then sampled again when the handler returns).
Tick(t) ==
    /\ Running(tc[t])
    /\ Clocked(t)
    /\ tc' = [tc EXCEPT ![t] = TickTc(tc[t])]
    /\ nvic' = [nvic EXCEPT ![t].pending =
                   nvic[t].pending \/ (Line(tc'[t]) /\ isr[t] = "idle")]
    /\ gap' = [gap EXCEPT ![t] = IF Overflows(tc[t]) THEN 0
                                 ELSE IF gap[t] < 0 THEN gap[t] ELSE gap[t] + 1]
    /\ UNCHANGED <<resolution, tcCallback, gclk, pc, call, isr, last, ninv>>
    /\ UNCHANGED <<cbHist, reqPeriod, gclkHist>>

--------------------------------------------------------------------------
(* Interrupt handlers TC4_Handler / TC5_Handler                           *)

\* Mutant: the handler does not test the slot against NULL.
HandlerEntryNoNullTest(t) ==
    /\ ~HandlerActive
    /\ IrqReady(t)
    /\ nvic' = [nvic EXCEPT ![t].pending = FALSE]
    /\ isr' = [isr EXCEPT ![t] = IF ~tc[t].intflag THEN "idle" ELSE "invoke"]
    /\ UNCHANGED <<resolution, tcCallback, tc, gclk, pc, call, last, ninv>>
    /\ UNCHANGED <<cbHist, tickHist, gclkHist>>

\* Exception entry, then lines 271-272: `if (INTFLAG.reg & TC_INTFLAG_OVF)`
\* and `if (tcXCallback != NULL)`.
HandlerEntry(t) ==
    /\ ~HandlerActive
    /\ IrqReady(t)
    /\ nvic' = [nvic EXCEPT ![t].pending = FALSE]
    /\ isr' = [isr EXCEPT ![t] = IF ~tc[t].intflag THEN "idle"
                                 ELSE IF tcCallback[t] # NULL THEN "invoke"
                                 ELSE "clear"]
    /\ UNCHANGED <<resolution, tcCallback, tc, gclk, pc, call, last, ninv>>
    /\ UNCHANGED <<cbHist, tickHist, gclkHist>>

\* line 273, `tcXCallback();` : the call through the slot; the callback runs.
HandlerInvoke(t) ==
    /\ isr[t] = "invoke"
    /\ isr' = [isr EXCEPT ![t] = "cb"]
    /\ calledFn' = [calledFn EXCEPT ![t] = tcCallback[t]]
    /\ runCalls' = [runCalls EXCEPT ![t] = Sat(runCalls[t])]
    /\ ninv' = [ninv EXCEPT ![t] = IF OneShotAsked(t) THEN Sat(ninv[t]) ELSE 0]
    /\ UNCHANGED <<resolution, tcCallback, tc, nvic, gclk, pc, call, last>>
    /\ UNCHANGED <<lastSet, prevSet, tickHist, gclkHist>>

\* The callback, if one was called, has returned; line 276,
\* `INTFLAG.reg |= TC_INTFLAG_OVF;`, and the exception return.
HandlerClear(t) ==
    /\ \/ isr[t] = "clear"
       \/ isr[t] = "cb" /\ pc["isr"] = "idle"
    /\ tc' = [tc EXCEPT ![t] = IntflagClear(tc[t])]
    /\ nvic' = [nvic EXCEPT ![t].pending = nvic[t].pending \/ Line(tc'[t])]
    /\ isr' = [isr EXCEPT ![t] = "idle"]
    /\ calledFn' = [calledFn EXCEPT ![t] = NULL]
    /\ runCalls' = [runCalls EXCEPT ![t] = 0]
    /\ UNCHANGED <<resolution, tcCallback, gclk, pc, call, last, ninv>>
    /\ UNCHANGED <<lastSet, prevSet, tickHist, gclkHist>>

--------------------------------------------------------------------------
(* ZeroTC45::begin and configureGclk (normal context)                     *)

\* begin(resolution, gclkId): `this->resolution = resolution`, then
\* configureGclk up to the GENDIV write.
Begin(r) ==
    /\ pc["thread"] = "idle"
    /\ CanRun("thread")
    /\ resolution' = r
    /\ gclk' = GendivWrite(Xosc32kEnable(gclk, r))
    /\ gclkUnsynced' = (gclkUnsynced \/ gclkDirty)
    /\ gclkDirty' = TRUE
    /\ pc' = [pc EXCEPT !["thread"] = "gclk250"]
    /\ UNCHANGED <<tcCallback, tc, nvic, call, isr, last, ninv>>
    /\ UNCHANGED <<cbHist, tickHist>>

\* begin(gclkId): `resolution = SECONDS`, then as above.
BeginDefault == Begin("SECONDS")

\* `while (GCLK->STATUS.bit.SYNCBUSY);` at lines 250, 261 and 267.
GclkWait(from, to) ==
    /\ pc["thread"] = from
    /\ CanRun("thread")
    /\ ~gclk.syncbusy
    /\ gclkDirty' = FALSE
    /\ pc' = [pc EXCEPT !["thread"] = to]
    /\ UNCHANGED <<resolution, tcCallback, tc, nvic, gclk, call, isr, last, ninv>>
    /\ UNCHANGED <<cbHist, tickHist, gclkUnsynced>>

\* Mutant: line 250 does not wait.
GclkNoWait250 ==
    /\ pc["thread"] = "gclk250"
    /\ CanRun("thread")
    /\ pc' = [pc EXCEPT !["thread"] = "gclk260"]
    /\ UNCHANGED <<resolution, tcCallback, tc, nvic, gclk, call, isr, last, ninv>>
    /\ UNCHANGED <<cbHist, tickHist, gclkHist>>

GclkWait250 == GclkWait("gclk250", "gclk260")

GclkWait261 == GclkWait("gclk261", "gclk264")

\* `GCLK->GENCTRL.reg = genctrl;`
GclkGenctrl ==
    /\ pc["thread"] = "gclk260"
    /\ CanRun("thread")
    /\ gclk' = GenctrlWrite(gclk, resolution)
    /\ gclkUnsynced' = (gclkUnsynced \/ gclkDirty)
    /\ gclkDirty' = TRUE
    /\ pc' = [pc EXCEPT !["thread"] = "gclk261"]
    /\ UNCHANGED <<resolution, tcCallback, tc, nvic, call, isr, last, ninv>>
    /\ UNCHANGED <<cbHist, tickHist>>

\* `GCLK->CLKCTRL.reg = CLKEN | GEN(gclkId) | ID(GCM_TC4_TC5);`
GclkClkctrl ==
    /\ pc["thread"] = "gclk264"
    /\ CanRun("thread")
    /\ gclk' = ClkctrlWrite(gclk)
    /\ gclkUnsynced' = (gclkUnsynced \/ gclkDirty)
    /\ gclkDirty' = TRUE
    /\ pc' = [pc EXCEPT !["thread"] = "gclk267"]
    /\ UNCHANGED <<resolution, tcCallback, tc, nvic, call, isr, last, ninv>>
    /\ UNCHANGED <<cbHist, tickHist>>

\* The wait at line 267, the return of configureGclk, the two PM writes and
\* the return of begin.
BeginReturn ==
    /\ pc["thread"] = "gclk267"
    /\ CanRun("thread")
    /\ ~gclk.syncbusy
    /\ gclkDirty' = FALSE
    /\ gclk' = ApbcEnable(gclk)
    /\ pc' = [pc EXCEPT !["thread"] = "idle"]
    /\ UNCHANGED <<resolution, tcCallback, tc, nvic, call, isr, last, ninv>>
    /\ UNCHANGED <<cbHist, tickHist, gclkUnsynced>>

--------------------------------------------------------------------------
(* setTc4Callback / setTc5Callback                                        *)

\* Mutant: a registered callback is kept; only an empty slot is filled.
SlotKeepsFirst(old, f) == IF old = NULL THEN f ELSE old

\* `tcXCallback = callback;`
SlotAfterSet(old, f) == f

SetCallback(ctx, t, f) ==
    /\ pc[ctx] = "idle"
    /\ CanRun(ctx)
    /\ tcCallback' = [tcCallback EXCEPT ![t] = SlotAfterSet(tcCallback[t], f)]
    /\ lastSet' = [lastSet EXCEPT ![t] = f]
    /\ prevSet' = [prevSet EXCEPT ![t] = tcCallback[t]]
    /\ UNCHANGED <<resolution, tc, nvic, gclk, pc, call, isr, last, ninv>>
    /\ UNCHANGED <<calledFn, runCalls, tickHist, gclkHist>>

--------------------------------------------------------------------------
(* startTc4 / startTc5 and configureTC                                    *)

\* The call is made; user code does not re-enter a call on the same timer.
StartCall(ctx, t, p, os) ==
    /\ pc[ctx] = "idle"
    /\ CanRun(ctx)
    /\ Begun
    /\ ~InCall(t)
    /\ pc' = [pc EXCEPT ![ctx] = "cfg168"]
    /\ call' = [call EXCEPT ![ctx] = [tc |-> t, period |-> p, oneShot |-> os]]
    /\ UNCHANGED <<resolution, tcCallback, tc, nvic, gclk, isr, last, ninv>>
    /\ UNCHANGED <<cbHist, tickHist, gclkHist>>

\* Mutant: the write is made without the busy-wait before it.
TcStepNoWait(ctx, from, to, r) ==
    /\ pc[ctx] = from
    /\ CanRun(ctx)
    /\ tc' = [tc EXCEPT ![call[ctx].tc] = r]
    /\ nvic' = [nvic EXCEPT ![call[ctx].tc].pending =
                   nvic[call[ctx].tc].pending
                   \/ (Line(r) /\ isr[call[ctx].tc] = "idle")]
    /\ pc' = [pc EXCEPT ![ctx] = to]
    /\ UNCHANGED <<resolution, tcCallback, gclk, call, isr, last, ninv>>
    /\ UNCHANGED <<cbHist, tickHist, gclkHist>>

\* A step of configureTC or stopTC on the TC: the busy-wait at `from`, then
\* the register write that follows it.
TcStep(ctx, from, to, r) ==
    /\ pc[ctx] = from
    /\ CanRun(ctx)
    /\ ~tc[call[ctx].tc].syncbusy
    /\ tc' = [tc EXCEPT ![call[ctx].tc] = r]
    /\ nvic' = [nvic EXCEPT ![call[ctx].tc].pending =
                   nvic[call[ctx].tc].pending
                   \/ (Line(r) /\ isr[call[ctx].tc] = "idle")]
    /\ pc' = [pc EXCEPT ![ctx] = to]
    /\ UNCHANGED <<resolution, tcCallback, gclk, call, isr, last, ninv>>
    /\ UNCHANGED <<cbHist, tickHist, gclkHist>>

\* lines 168-169: the counter halts; what overflows from here on does so
\* under the configuration this call writes.
CfgDisable(ctx) ==
    /\ pc[ctx] = "cfg168"
    /\ CanRun(ctx)
    /\ ~tc[call[ctx].tc].syncbusy
    /\ tc' = [tc EXCEPT ![call[ctx].tc] = CtrlaDisable(tc[call[ctx].tc])]
    /\ pc' = [pc EXCEPT ![ctx] = "cfg170"]
    /\ gap' = [gap EXCEPT ![call[ctx].tc] = -1]
    /\ reqPeriod' = [reqPeriod EXCEPT ![call[ctx].tc] = call[ctx].period]
    /\ ninv' = [ninv EXCEPT ![call[ctx].tc] = 0]
    /\ UNCHANGED <<resolution, tcCallback, nvic, gclk, call, isr, last>>
    /\ UNCHANGED <<cbHist, gclkHist>>

\* lines 170-180
CfgCtrla(ctx) ==
    TcStep(ctx, "cfg170", "cfg181", CtrlaConfigure(tc[call[ctx].tc], resolution))

\* lines 181-185, oneShot
CfgOneShot(ctx) ==
    /\ call[ctx].oneShot
    /\ TcStep(ctx, "cfg181", "cfg186", CtrlbSetOneShot(tc[call[ctx].tc]))

\* lines 181-191, not oneShot, and lines 186-191
CfgCc0(ctx) ==
    \/ /\ ~call[ctx].oneShot
       /\ TcStep(ctx, "cfg181", "cfg192", Cc0Write(tc[call[ctx].tc], call[ctx].period))
    \/ TcStep(ctx, "cfg186", "cfg192", Cc0Write(tc[call[ctx].tc], call[ctx].period))

\* lines 192-195
CfgInten(ctx) ==
    TcStep(ctx, "cfg192", "cfg196", IntenSetOvf(tc[call[ctx].tc]))

\* lines 196-199
CfgEnable(ctx) ==
    TcStep(ctx, "cfg196", "cfg200", CtrlaEnable(tc[call[ctx].tc]))

\* lines 200-212 and the return of startTcX
CfgNvic(ctx) ==
    /\ pc[ctx] = "cfg200"
    /\ CanRun(ctx)
    /\ ~tc[call[ctx].tc].syncbusy
    /\ nvic' = [nvic EXCEPT ![call[ctx].tc] =
                   NvicClearEnable(nvic[call[ctx].tc],
                                   Line(tc[call[ctx].tc]) /\ isr[call[ctx].tc] = "idle")]
    /\ pc' = [pc EXCEPT ![ctx] = "idle"]
    /\ last' = [last EXCEPT ![call[ctx].tc] =
                   IF call[ctx].oneShot THEN "oneshot" ELSE "repeat"]
    /\ call' = [call EXCEPT ![ctx] = NoCall]
    /\ UNCHANGED <<resolution, tcCallback, tc, gclk, isr, ninv>>
    /\ UNCHANGED <<cbHist, tickHist, gclkHist>>

--------------------------------------------------------------------------
(* stopTc4 / stopTc5 and stopTC                                           *)

StopCall(ctx, t) ==
    /\ pc[ctx] = "idle"
    /\ CanRun(ctx)
    /\ Begun
    /\ ~InCall(t)
    /\ pc' = [pc EXCEPT ![ctx] = "stop140"]
    /\ call' = [call EXCEPT ![ctx] = [tc |-> t, period |-> 1, oneShot |-> FALSE]]
    /\ ninv' = [ninv EXCEPT ![t] = 0]
    /\ UNCHANGED <<resolution, tcCallback, tc, nvic, gclk, isr, last>>
    /\ UNCHANGED <<cbHist, tickHist, gclkHist>>

\* lines 140-141
StopCmd(ctx) ==
    TcStep(ctx, "stop140", "stop142", CmdStop(tc[call[ctx].tc]))

\* lines 142-145
StopInten(ctx) ==
    TcStep(ctx, "stop142", "stop146", IntenClrOvf(tc[call[ctx].tc]))

\* lines 146-154 and the return of stopTcX
StopNvic(ctx) ==
    /\ pc[ctx] = "stop146"
    /\ CanRun(ctx)
    /\ ~tc[call[ctx].tc].syncbusy
    /\ nvic' = [nvic EXCEPT ![call[ctx].tc] =
                   NvicClearDisable(nvic[call[ctx].tc],
                                    Line(tc[call[ctx].tc]) /\ isr[call[ctx].tc] = "idle")]
    /\ pc' = [pc EXCEPT ![ctx] = "idle"]
    /\ last' = [last EXCEPT ![call[ctx].tc] = "stopped"]
    /\ call' = [call EXCEPT ![ctx] = NoCall]
    /\ UNCHANGED <<resolution, tcCallback, tc, gclk, isr, ninv>>
    /\ UNCHANGED <<cbHist, tickHist, gclkHist>>

--------------------------------------------------------------------------
(* Specifications                                                         *)

Hardware ==
    \/ \E t \in Timers : TcSyncDone(t)
    \/ GclkSyncDone
    \/ \E t \in Timers : Tick(t)

Handlers ==
    \/ \E t \in Timers : HandlerEntry(t)
    \/ \E t \in Timers : HandlerInvoke(t)
    \/ \E t \in Timers : HandlerClear(t)

GclkSteps ==
    \/ GclkWait250
    \/ GclkGenctrl
    \/ GclkWait261
    \/ GclkClkctrl
    \/ BeginReturn

TcSteps(ctx) ==
    \/ CfgDisable(ctx)
    \/ CfgCtrla(ctx)
    \/ CfgOneShot(ctx)
    \/ CfgCc0(ctx)
    \/ CfgInten(ctx)
    \/ CfgEnable(ctx)
    \/ CfgNvic(ctx)
    \/ StopCmd(ctx)
    \/ StopInten(ctx)
    \/ StopNvic(ctx)

\* begin is called once, before any other method.
BeginOnce ==
    \/ \E r \in Resolutions : ~Begun /\ Begin(r)
    \/ ~Begun /\ BeginDefault
    \/ GclkSteps

\* The API is called from the normal context only; begin once.
Next ==
    \/ Hardware
    \/ Handlers
    \/ BeginOnce
    \/ TcSteps("thread")
    \/ \E t \in Timers : SetCallback("thread", t, "A")
    \/ \E t \in Timers, p \in Periods, os \in BOOLEAN : StartCall("thread", t, p, os)
    \/ \E t \in Timers : StopCall("thread", t)

Spec == Init /\ [][Next]_vars

\* begin may be called again at any time; no callback is registered.
NextRes ==
    \/ Hardware
    \/ \E t \in Timers : HandlerEntry(t)
    \/ \E t \in Timers : HandlerClear(t)
    \/ \E r \in Resolutions : Begin(r)
    \/ BeginDefault
    \/ GclkSteps
    \/ TcSteps("thread")
    \/ \E t \in Timers, p \in Periods, os \in BOOLEAN : StartCall("thread", t, p, os)
    \/ \E t \in Timers : StopCall("thread", t)

SpecRes == Init /\ [][NextRes]_vars

\* User code also calls the API from inside a callback; begin once.
NextIsr ==
    \/ Next
    \/ TcSteps("isr")
    \/ \E t \in Timers : SetCallback("isr", t, "A")
    \/ \E t \in Timers, p \in Periods, os \in BOOLEAN : StartCall("isr", t, p, os)
    \/ \E t \in Timers : StopCall("isr", t)

SpecIsr == Init /\ [][NextIsr]_vars

\* The setters are called with every value, NULL included, while both timers
\* are started and restarted; begin once, no stop.
NextCb ==
    \/ Hardware
    \/ Handlers
    \/ BeginOnce
    \/ CfgDisable("thread")
    \/ CfgCtrla("thread")
    \/ CfgOneShot("thread")
    \/ CfgCc0("thread")
    \/ CfgInten("thread")
    \/ CfgEnable("thread")
    \/ CfgNvic("thread")
    \/ \E t \in Timers, f \in Fns : SetCallback("thread", t, f)
    \/ \E t \in Timers, p \in Periods, os \in BOOLEAN : StartCall("thread", t, p, os)

SpecCb == Init /\ [][NextCb]_vars

\* begin() once, then TC4 is started once with a period at the edges of
\* uint16_t; no callback is registered.
NextPeriod ==
    \/ Hardware
    \/ \E t \in Timers : HandlerEntry(t)
    \/ \E t \in Timers : HandlerClear(t)
    \/ ~Begun /\ BeginDefault
    \/ GclkSteps
    \/ CfgDisable("thread")
    \/ CfgCtrla("thread")
    \/ CfgOneShot("thread")
    \/ CfgCc0("thread")
    \/ CfgInten("thread")
    \/ CfgEnable("thread")
    \/ CfgNvic("thread")
    \/ \E p \in EdgePeriods, os \in BOOLEAN :
           last["TC4"] = "none" /\ StartCall("thread", "TC4", p, os)

SpecPeriod == Init /\ [][NextPeriod]_vars

\* A step of the call the thread is executing.
ThreadStep == GclkSteps \/ TcSteps("thread")

\* The core is idle of interrupt work: no handler runs and no line pends.
Quiet == ~HandlerActive /\ \A t \in Timers : ~IrqReady(t)

\* The API is called from the normal context, begin once, no callback is
\* registered.  The hardware finishes every write synchronisation and a handler
\* that is entered runs to its return.  The counters tick at 1 kHz at most and a
\* handler takes a few instructions, so no tick falls while an interrupt is
\* being served, and the thread executes between the interrupts.
NextFair ==
    \/ \E t \in Timers : TcSyncDone(t)
    \/ GclkSyncDone
    \/ \E t \in Timers : Quiet /\ Tick(t)
    \/ \E t \in Timers : HandlerEntry(t)
    \/ \E t \in Timers : HandlerClear(t)
    \/ BeginOnce
    \/ TcSteps("thread")
    \/ \E t \in Timers, p \in Periods, os \in BOOLEAN : StartCall("thread", t, p, os)
    \/ \E t \in Timers : StopCall("thread", t)

FairSpec ==
    /\ Init /\ [][NextFair]_vars
    /\ \A t \in Timers : WF_vars(TcSyncDone(t))
    /\ WF_vars(GclkSyncDone)
    /\ WF_vars(\E t \in Timers : HandlerEntry(t))
    /\ WF_vars(\E t \in Timers : HandlerClear(t))
    /\ SF_vars(ThreadStep)

--------------------------------------------------------------------------
(* Properties                                                             *)

\* What a caller can observe of a timer: running state, overflow-interrupt
\* enable, interrupt-line enable and pending bit, callback slot, one-shot flag.
Obs(r, n, slot) == <<Running(r), r.inten, n.enabled, n.pending, slot, r.oneshot>>

\* The registers of timer t after a whole stopTC run from registers r, n.
TcAfterStop(r) == IntenClrOvf(CmdStop(r))

NvicAfterStop(t, r, n) ==
    NvicClearDisable(n, Line(TcAfterStop(r)) /\ isr[t] = "idle")

ObsAfterStop(t, r, n) == Obs(TcAfterStop(r), NvicAfterStop(t, r, n), tcCallback[t])

\* C1 (as claimed): once start(timer, P, oneShot=false) has returned, with a
\* callback registered and no later start or stop call on the timer, the timer
\* is in repeating mode: it keeps counting and its overflow interrupt stays
\* enabled, whatever calls came before.
C1_RepeatStaysRunning ==
    \A t \in Timers :
        (last[t] = "repeat" /\ ~InCall(t) /\ tcCallback[t] # NULL)
            => (Running(tc[t]) /\ tc[t].inten /\ nvic[t].enabled)

\* C3 (as claimed): stop on a timer that is already STOPPED (not counting)
\* changes nothing a caller can observe.
C3_StopOnStoppedChangesNothing ==
    \A t \in Timers :
        (~InCall(t) /\ ~Running(tc[t]))
            => ObsAfterStop(t, tc[t], nvic[t]) = Obs(tc[t], nvic[t], tcCallback[t])

\* C3 (amended): stop twice in a row leaves the observable state of stop once,
\* and stop on a timer whose last completed call was stop, or that was never
\* started, changes nothing a caller can observe.
C3_StopIdempotent ==
    \A t \in Timers :
        /\ ObsAfterStop(t, TcAfterStop(tc[t]), NvicAfterStop(t, tc[t], nvic[t]))
               = ObsAfterStop(t, tc[t], nvic[t])
        /\ (~InCall(t) /\ last[t] \in {"none", "stopped"})
               => ObsAfterStop(t, tc[t], nvic[t]) = Obs(tc[t], nvic[t], tcCallback[t])

\* C3 witness: a timer that ran in one-shot mode with a callback registered
\* has been stopped by a completed stop call.
C3_Witness ==
    \E t \in Timers :
        /\ last[t] = "stopped" /\ ~InCall(t)
        /\ tc[t].enable /\ tc[t].oneshot /\ tcCallback[t] # NULL

\* The rate a counter ticks at: its clock source, the generator's divider, and
\* its own prescaler.
TickRate(t) == <<gclk.src, gclk.gendiv, tc[t].prescaler>>

RateOf(res) ==
    IF res = "SECONDS" THEN <<"XOSC32K", 4, 1024>> ELSE <<"OSCULP32K", 4, 1>>

\* C5 (as claimed): whatever the sequence of begin, start and stop calls, TC4
\* and TC5, when both are running, tick at the same rate, that of the
\* resolution of the most recent begin.
C5_OneResolution ==
    (pc["thread"] = "idle" /\ \A t \in Timers : Running(tc[t]))
        => \A t \in Timers : TickRate(t) = RateOf(resolution)

\* C7: in configureGclk no generator register (GENDIV, GENCTRL, CLKCTRL) is
\* written unless a busy-wait saw SYNCBUSY clear since the previous such write,
\* and begin returns only after a busy-wait that followed the last write.
C7_GclkWritesSynced ==
    /\ ~gclkUnsynced
    /\ (pc["thread"] \notin GclkWaitLabels) => ~gclkDirty

\* C7 witness: begin, called again while a timer runs, has written CLKCTRL and
\* spins on SYNCBUSY at line 267.
C7_Witness ==
    /\ pc["thread"] = "gclk267"
    /\ gclk.syncbusy /\ gclkDirty
    /\ \E t \in Timers : Running(tc[t])

\* C9 (as claimed): after start has returned, the timer's callback is not
\* called until the counter has overflowed under the new configuration.
C9_NoSpuriousCallback ==
    \A t \in Timers :
        (isr[t] = "invoke" /\ ~InCall(t) /\ last[t] \in {"repeat", "oneshot"})
            => gap[t] >= 0

\* C2 (as claimed): after start(timer, P, oneShot=true) with a callback
\* registered and no further start or stop call, the callback is called at most
\* once, and once it has been called the timer is STOPPED.
C2_OneShotOnce ==
    \A t \in Timers :
        (last[t] = "oneshot" /\ ~InCall(t))
            => /\ ninv[t] <= 1
               /\ (ninv[t] = 1 => ~Running(tc[t]))

\* C4: the handler calls the function the last completed setter call stored,
\* never the one that call overwrote.
C4_NewCallbackInvoked ==
    \A t \in Timers :
        isr[t] = "cb" =>
            /\ calledFn[t] = lastSet[t]
            /\ (prevSet[t] # lastSet[t] => calledFn[t] # prevSet[t])

\* C4 witness: callback A was replaced by B, the timer overflowed, and the
\* handler has called B.
C4_Witness ==
    \E t \in Timers :
        /\ isr[t] = "cb" /\ tc[t].intflag
        /\ prevSet[t] = "A" /\ lastSet[t] = "B" /\ calledFn[t] = "B"

\* C10: a handler never calls through a NULL slot and calls at most once per
\* run; with the slot NULL at the overflow it calls nothing; and every handler
\* run that found the overflow flag set returns with the flag cleared.
C10_NoNullCall ==
    /\ [](\A t \in Timers :
            /\ isr[t] = "invoke" => tcCallback[t] # NULL
            /\ isr[t] = "cb" => calledFn[t] # NULL
            /\ isr[t] = "clear" => (tcCallback[t] = NULL /\ runCalls[t] = 0)
            /\ runCalls[t] <= 1)
    /\ [][\A t \in Timers :
              (isr[t] \in {"clear", "cb"} /\ isr'[t] = "idle") => ~tc'[t].intflag]_vars

\* C10 witness: the slot was set back to NULL after a callback had been
\* registered, the timer overflowed, and its handler runs with nothing to call.
C10_Witness ==
    \E t \in Timers :
        /\ isr[t] = "clear" /\ tc[t].intflag
        /\ tcCallback[t] = NULL /\ prevSet[t] # NULL /\ runCalls[t] = 0

\* The overflow period, in ticks, that period argument p asks for.
PeriodTicks(p) == IF p = 0 THEN Uint16 ELSE p

\* C6: CC0 holds (p - 1) mod 2^16, which is 0xFFFF for p = 0; a running timer
\* overflows no later than PeriodTicks(p) ticks after its last overflow, and no
\* earlier.
C6_PeriodTicks ==
    /\ [](\A t \in Timers :
            Running(tc[t]) =>
                /\ tc[t].cc0 = (IF reqPeriod[t] = 0 THEN Uint16 - 1 ELSE reqPeriod[t] - 1)
                /\ gap[t] < PeriodTicks(reqPeriod[t]))
    /\ [][\A t \in Timers :
              (gap[t] >= 0 /\ Overflows(tc[t]) /\ tc'[t] = TickTc(tc[t]) /\ gap'[t] = 0)
                  => gap[t] + 1 = PeriodTicks(reqPeriod[t])]_vars

\* C6 witness: start was called with period 0, CC0 holds 0xFFFF, and the
\* counter has counted past every small period without overflowing.
C6_Witness ==
    \E t \in Timers :
        /\ Running(tc[t]) /\ reqPeriod[t] = 0
        /\ tc[t].cc0 = Uint16 - 1 /\ tc[t].count = 4 /\ ~tc[t].intflag

\* The status bit the thread's busy-wait polls is set.
PolledBusy ==
    \/ pc["thread"] \in CfgLabels \cup StopLabels /\ tc[call["thread"].tc].syncbusy
    \/ pc["thread"] \in GclkWaitLabels /\ gclk.syncbusy

\* C8: under the fairness of FairSpec every begin, start and stop call returns;
\* and while the polled sync-busy bit is set the call stays at its busy-wait:
\* it neither returns nor makes its next register write.
C8_CallsTerminate ==
    /\ (pc["thread"] # "idle") ~> (pc["thread"] = "idle")
    /\ [][PolledBusy => pc'["thread"] = pc["thread"]]_vars

\* C8 witness: stop spins at line 142 on the SYNCBUSY its stop command raised,
\* while the other timer runs.
C8_Witness ==
    /\ pc["thread"] = "stop142"
    /\ tc[call["thread"].tc].syncbusy
    /\ \E t \in Timers : Running(tc[t]) /\ t # call["thread"].tc

==========================================================================
